---- MODULE Spec2Model ----
(***************************************************************************)
(* A model of model/model/delegator.py: the Delegator agent of the         *)
(* revenue-sharing pool (construction, dividend_value, buy_or_sell) and    *)
(* the component-weight sampler get_component_weights.                     *)
(*                                                                         *)
(* Python floats are held in fixed point: a real x is the integer          *)
(* x * Unit, products and quotients are rounded toward zero, and a square  *)
(* root is rounded down.  The normalised component weights are kept as     *)
(* exact fractions <<numerator, denominator>>.                             *)
(***************************************************************************)
EXTENDS Integers, Sequences, FiniteSets, TLC

VARIABLES
    unvested_shares,                \* self._unvested_shares: timestep -> shares
    vested_shares,                  \* self.vested_shares
    reserve_token_holdings,         \* self.reserve_token_holdings
    minimum_shares,                 \* self.minimum_shares
    private_price,                  \* self.private_price
    cost_basis,                     \* self.cost_basis
    unrealized_gains_from_shares,   \* self.unrealized_gains_from_shares
    realized_gains_from_shares,     \* self.realized_gains_from_shares
    realized_gains_from_dividends,  \* self.realized_gains_from_dividends
    expected_revenue,               \* self.expected_revenue
    time_factor,                    \* self.time_factor
    nonreal,                        \* a ledger holds a Python complex number
    last,                           \* the most recent call, its inputs and outcome
    calls,                          \* number of calls made so far
    delegate_counter,               \* Delegator.delegate_counter
    population,                     \* the Delegators constructed so far
    weights_out                     \* result of a direct get_component_weights call

vars == <<unvested_shares, vested_shares, reserve_token_holdings, minimum_shares,
          private_price, cost_basis, unrealized_gains_from_shares,
          realized_gains_from_shares, realized_gains_from_dividends,
          expected_revenue, time_factor, nonreal, last, calls,
          delegate_counter, population, weights_out>>

ledgerVars == <<unvested_shares, vested_shares, reserve_token_holdings,
                cost_basis, unrealized_gains_from_shares,
                realized_gains_from_shares, realized_gains_from_dividends>>

paramVars == <<minimum_shares, expected_revenue, time_factor>>

samplerVars == <<delegate_counter, population, weights_out>>

-----------------------------------------------------------------------------
(* Bounds of the model *)

\* fixed-point resolution: one real unit is Unit model units
Unit == 100

\* buy_or_sell / dividend_value calls explored per run
MaxCalls == 2

\* timesteps passed to buy_or_sell are 0..MaxTimestep
MaxTimestep == 1

\* Delegators constructed per run
MaxAgents == 4

\* exponential samples are drawn from 1..MaxSample
MaxSample == 3

-----------------------------------------------------------------------------
(* Fixed-point arithmetic *)

Abs(x) == IF x < 0 THEN -x ELSE x

Sign(x) == IF x < 0 THEN -1 ELSE 1

\* a * b on reals
Mul(a, b) == Sign(a) * Sign(b) * ((Abs(a) * Abs(b)) \div Unit)

\* a / b on reals, b # 0
Div(a, b) == Sign(a) * Sign(b) * ((Abs(a) * Unit) \div Abs(b))

RECURSIVE ISqrtBetween(_, _, _)
\* the largest k in lo..hi with k * k <= n
ISqrtBetween(n, lo, hi) ==
    IF lo >= hi THEN lo
    ELSE LET mid == (lo + hi + 1) \div 2
         IN IF mid * mid <= n THEN ISqrtBetween(n, mid, hi)
                               ELSE ISqrtBetween(n, lo, mid - 1)

\* x ** (1 / 2) on a real x >= 0
Sqrt(x) == ISqrtBetween(x * Unit, 0, x * Unit + 1)

RECURSIVE SumOver(_, _)
SumOver(f, S) ==
    IF S = {} THEN 0
    ELSE LET k == CHOOSE k \in S : TRUE
         IN f[k] + SumOver(f, S \ {k})

-----------------------------------------------------------------------------
(* Delegator: derived quantities *)

\* property unvested_shares: the sum of the dict's values
UnvestedShares(unvested) == SumOver(unvested, DOMAIN unvested)

\* property shares
Shares(unvested, vested) == UnvestedShares(unvested) + vested

shares == Shares(unvested_shares, vested_shares)

-----------------------------------------------------------------------------
(* Delegator.buy_or_sell: the arithmetic of each step *)

\* pct_price_diff: 0 unless spot_price > 0
PctPriceDiff(pp, spot_price) ==
    IF spot_price > 0 THEN Abs(Div(pp - spot_price, spot_price)) ELSE 0

\* the comparison turned round
DontAct_Inverted(pct_price_diff, mininum_required_price_pct_diff_to_act) ==
    pct_price_diff > mininum_required_price_pct_diff_to_act

\* "don't act": the early return
DontAct(pct_price_diff, mininum_required_price_pct_diff_to_act) ==
    pct_price_diff < mininum_required_price_pct_diff_to_act

\* BUY: the reserve that moves spot_price to private_price
DesiredAddedReserve(pp, supply, reserve) ==
    Div(Mul(Mul(pp, pp), Mul(supply, supply)) - 4 * Mul(reserve, reserve),
        4 * reserve)

\* the clip to the holdings left out
ClipToHoldings_NoClip(added_reserve, holdings) == added_reserve

\* "can't spend reserve you don't have"
ClipToHoldings(added_reserve, holdings) ==
    IF added_reserve > holdings THEN holdings ELSE added_reserve

\* 1 + added_reserve / reserve, the number whose square root is taken
Radicand(added_reserve, reserve) == Unit + Div(added_reserve, reserve)

\* supply * ((1 + added_reserve / reserve) ** (1 / 2)) - supply
CreatedShares(supply, reserve, added_reserve) ==
    Mul(supply, Sqrt(Radicand(added_reserve, reserve))) - supply

\* SELL: the burn that moves spot_price to private_price
DesiredBurn(pp, supply, reserve) ==
    Div(2 * Mul(reserve, supply) - Mul(pp, Mul(supply, supply)), 2 * reserve)

\* every share counted as sellable, vested or not
VestedSharesCount_AllShares(vested, unvested) == vested + UnvestedShares(unvested)

\* "can only sell vested shares"
VestedSharesCount(vested, unvested) == vested

\* "can't burn shares you don't have"
ClipToVested(burned_shares, vested_shares_count) ==
    IF burned_shares > vested_shares_count THEN vested_shares_count
    ELSE burned_shares

\* the floor of minimum_shares left out
ClipToMinimum_NoFloor(burned_shares, vested_shares_count, minimum) == burned_shares

\* "can't burn shares you're not allowed to burn"
ClipToMinimum(burned_shares, vested_shares_count, minimum) ==
    IF vested_shares_count - burned_shares < minimum
    THEN vested_shares_count - minimum
    ELSE burned_shares

\* reserve - reserve * (1 - burned_shares / supply) ** 2
ReservePaidOut(reserve, supply, burned_shares) ==
    LET rest == Unit - Div(burned_shares, supply)
    IN reserve - Mul(reserve, Mul(rest, rest))

\* self._unvested_shares[timestep] = created_shares
SetEntry(unvested, timestep, created_shares) ==
    [t \in (DOMAIN unvested) \cup {timestep} |->
        IF t = timestep THEN created_shares ELSE unvested[t]]

\* the ledger fields of the agent, as a call finds them
Snapshot ==
    [unvested_shares |-> unvested_shares,
     vested_shares |-> vested_shares,
     reserve_token_holdings |-> reserve_token_holdings,
     cost_basis |-> cost_basis,
     unrealized_gains_from_shares |-> unrealized_gains_from_shares,
     realized_gains_from_shares |-> realized_gains_from_shares,
     realized_gains_from_dividends |-> realized_gains_from_dividends,
     shares |-> shares]

NoCall == [op |-> "none"]

\* the record of one buy_or_sell call
TradeCall(supply, reserve, spot_price, threshold, timestep, outcome, created_shares, added_reserve) ==
    [op |-> "buy_or_sell", supply |-> supply, reserve |-> reserve,
     spot_price |-> spot_price, threshold |-> threshold, timestep |-> timestep,
     private_price |-> private_price, minimum_shares |-> minimum_shares,
     before |-> Snapshot, outcome |-> outcome,
     created_shares |-> created_shares, added_reserve |-> added_reserve]

-----------------------------------------------------------------------------
(* Delegator.buy_or_sell *)

BuyOrSell(supply, reserve, spot_price, mininum_required_price_pct_diff_to_act, timestep) ==
    LET original_shares == shares
        original_cost_basis == cost_basis
        pct_price_diff == PctPriceDiff(private_price, spot_price)
        buying == private_price > spot_price
        selling == ~buying /\ private_price < spot_price
        \* both sizing formulas divide by a multiple of reserve
        zero_reserve == (buying \/ selling) /\ reserve = 0
        \* BUY
        added_buy == ClipToHoldings(
                        DesiredAddedReserve(private_price, supply, reserve),
                        reserve_token_holdings)
        \* a negative number to the power 1/2 is a Python complex number
        complex == buying /\ Radicand(added_buy, reserve) < 0
        \* SELL
        vested_shares_count == VestedSharesCount(vested_shares, unvested_shares)
        sold == selling /\ vested_shares_count > 0
        burned_shares ==
            ClipToMinimum(
                ClipToVested(DesiredBurn(private_price, supply, reserve),
                             vested_shares_count),
                vested_shares_count, minimum_shares)
        created_shares ==
            IF buying
            THEN (IF complex THEN -supply
                  ELSE CreatedShares(supply, reserve, added_buy))
            ELSE IF sold THEN -burned_shares ELSE 0
        added_reserve ==
            IF buying THEN added_buy
            ELSE IF sold THEN -ReservePaidOut(reserve, supply, burned_shares)
            ELSE 0
        unvested1 == IF buying
                     THEN SetEntry(unvested_shares, timestep, created_shares)
                     ELSE unvested_shares
        vested1 == IF sold THEN vested_shares - burned_shares ELSE vested_shares
        holdings1 == reserve_token_holdings - added_reserve
        shares1 == Shares(unvested1, vested1)
        \* bookkeeping for profits
        zero_supply == ~complex /\ supply + created_shares = 0
        new_spot_price == Div(2 * (reserve + added_reserve),
                              supply + created_shares)
        traded == created_shares # 0
        zero_shares == traded /\ added_reserve > 0 /\ shares1 = 0
        created_shares_cost_basis == Div(added_reserve, created_shares)
        cost_basis1 ==
            IF traded /\ added_reserve > 0
            THEN Div(Mul(original_cost_basis, original_shares)
                       + Mul(created_shares_cost_basis, created_shares),
                     shares1)
            ELSE cost_basis
        realized1 ==
            IF traded /\ added_reserve < 0
            THEN realized_gains_from_shares
                   - Mul(created_shares_cost_basis - cost_basis, created_shares)
            ELSE realized_gains_from_shares
        unrealized1 ==
            IF traded
            THEN Mul(shares1, new_spot_price) - Mul(shares1, cost_basis1)
            ELSE unrealized_gains_from_shares
        Call(outcome, c, a) ==
            TradeCall(supply, reserve, spot_price,
                      mininum_required_price_pct_diff_to_act, timestep,
                      outcome, c, a)
    IN
    /\ ~nonreal
    /\ calls < MaxCalls
    /\ calls' = calls + 1
    /\ UNCHANGED <<private_price, realized_gains_from_dividends, paramVars,
                   samplerVars>>
    /\ IF DontAct(pct_price_diff, mininum_required_price_pct_diff_to_act)
       THEN \* don't act
            /\ last' = Call("returned", 0, 0)
            /\ UNCHANGED <<unvested_shares, vested_shares,
                           reserve_token_holdings, cost_basis,
                           unrealized_gains_from_shares,
                           realized_gains_from_shares, nonreal>>
       ELSE IF zero_reserve
       THEN \* ZeroDivisionError in the sizing formula, before anything is written
            /\ last' = Call("raised", 0, 0)
            /\ UNCHANGED <<unvested_shares, vested_shares,
                           reserve_token_holdings, cost_basis,
                           unrealized_gains_from_shares,
                           realized_gains_from_shares, nonreal>>
       ELSE /\ unvested_shares' = unvested1
            /\ vested_shares' = vested1
            /\ reserve_token_holdings' = holdings1
            /\ IF complex
               THEN \* the created shares and the gains ledgers are complex
                    /\ nonreal' = TRUE
                    /\ last' = Call("returned", created_shares, added_reserve)
                    /\ UNCHANGED <<cost_basis, unrealized_gains_from_shares,
                                   realized_gains_from_shares>>
               ELSE IF zero_supply \/ zero_shares
               THEN \* ZeroDivisionError in the bookkeeping
                    /\ last' = Call("raised", created_shares, added_reserve)
                    /\ UNCHANGED <<cost_basis, unrealized_gains_from_shares,
                                   realized_gains_from_shares, nonreal>>
               ELSE /\ cost_basis' = cost_basis1
                    /\ realized_gains_from_shares' = realized1
                    /\ unrealized_gains_from_shares' = unrealized1
                    /\ last' = Call("returned", created_shares, added_reserve)
                    /\ UNCHANGED nonreal

-----------------------------------------------------------------------------
(* Delegator.dividend_value *)

\* a guard against division by zero only
SupplyAsserted_NonZero(supply) == supply # 0

\* assert(supply > 0)
SupplyAsserted(supply) == supply > 0

\* revenue_per_period_per_share * reserve_to_revenue_token_exchange_rate
ReserveAssetPerPeriodPerShare(revenue, supply, owners_share, exchange_rate) ==
    Mul(Div(Mul(revenue, Unit - owners_share), supply), exchange_rate)

\* the record of one dividend_value call
DividendCall(supply, owners_share, exchange_rate, outcome, value) ==
    [op |-> "dividend_value", supply |-> supply, owners_share |-> owners_share,
     exchange_rate |-> exchange_rate, before |-> Snapshot, outcome |-> outcome,
     value |-> value]

DividendValue(supply, owners_share, reserve_to_revenue_token_exchange_rate) ==
    LET reserve_asset_per_period_per_share ==
            ReserveAssetPerPeriodPerShare(expected_revenue, supply, owners_share,
                                          reserve_to_revenue_token_exchange_rate)
        reserve_asset_per_share_time_corrected ==
            Mul(reserve_asset_per_period_per_share, time_factor)
        Call(outcome, value) ==
            DividendCall(supply, owners_share,
                         reserve_to_revenue_token_exchange_rate, outcome, value)
    IN
    /\ calls < MaxCalls
    /\ calls' = calls + 1
    /\ UNCHANGED <<unvested_shares, vested_shares, reserve_token_holdings,
                   cost_basis, unrealized_gains_from_shares,
                   realized_gains_from_shares, private_price, paramVars,
                   nonreal, samplerVars>>
    /\ IF ~SupplyAsserted(supply)
       THEN \* AssertionError, before anything is written
            /\ last' = Call("raised", 0)
            /\ UNCHANGED realized_gains_from_dividends
       ELSE /\ realized_gains_from_dividends' =
                  realized_gains_from_dividends
                    + Mul(reserve_asset_per_period_per_share, shares)
            /\ last' = Call("returned", reserve_asset_per_share_time_corrected)

\* pool supplies a scheduler may pass, a stale or empty pool included
DividendSupplies == {-(10 * Unit), 0, 10 * Unit, 100 * Unit}

OwnersShares == {0, (2 * Unit) \div 10}

ExchangeRates == {Unit, 2 * Unit}

DividendValueStep ==
    \E supply \in DividendSupplies, owners_share \in OwnersShares,
       rate \in ExchangeRates :
        DividendValue(supply, owners_share, rate)

-----------------------------------------------------------------------------
(* The scheduler around the agent *)

\* the bonding curve's price of a pool: 2 * reserve / supply
SpotPrice(supply, reserve) == Div(2 * reserve, supply)

\* pool-wide <<supply, reserve>> pairs the scheduler passes in
Pools == {<<20 * Unit, 20 * Unit>>, <<40 * Unit, 20 * Unit>>,
          <<20 * Unit, 10 * Unit>>, <<20 * Unit, 0>>}

\* private prices the scheduler sets
Prices == {0, Unit, 3 * Unit}

\* minimum percent differences to act
Thresholds == {0, Unit}

Timesteps == 0 .. MaxTimestep

\* the scheduler calls buy_or_sell with the current pool state
BuyOrSellStep ==
    \E pool \in Pools, threshold \in Thresholds, timestep \in Timesteps :
        BuyOrSell(pool[1], pool[2], SpotPrice(pool[1], pool[2]), threshold,
                  timestep)

\* the scheduler sets the agent's private price before a call
SetPrivatePrice ==
    \E p \in Prices :
        /\ ~nonreal
        /\ p # private_price
        /\ private_price' = p
        /\ last' = NoCall
        /\ UNCHANGED <<ledgerVars, paramVars, nonreal, calls, samplerVars>>

\* the vesting scheduler promotes one unvested entry to vested shares
Vest ==
    \E t \in DOMAIN unvested_shares :
        /\ ~nonreal
        /\ vested_shares' = vested_shares + unvested_shares[t]
        /\ unvested_shares' =
              [k \in (DOMAIN unvested_shares) \ {t} |-> unvested_shares[k]]
        /\ last' = NoCall
        /\ UNCHANGED <<reserve_token_holdings, cost_basis,
                       unrealized_gains_from_shares, realized_gains_from_shares,
                       realized_gains_from_dividends, private_price, paramVars,
                       nonreal, calls, samplerVars>>

-----------------------------------------------------------------------------
(* get_component_weights *)

AVG_OUTSIZE_FACTOR_OF_PRICE_TYPE == 10

\* Python list indexing: a negative index counts from the end
PyIndex(i, len) == IF i < 0 THEN i + len ELSE i

\* the outsize factor applied after the sum was taken
GetComponentWeights_OutsizeAfterSum(delegator_type, samples) ==
    IF delegator_type = 0
    THEN LET total == samples[0] + samples[1] + samples[2]
         IN [i \in 0 .. 2 |->
                <<IF i = 1 THEN samples[i] * 10 ELSE samples[i], total>>]
    ELSE LET hot == PyIndex(delegator_type - 1, 3)
         IN [i \in 0 .. 2 |-> IF i = hot THEN <<1, 1>> ELSE <<0, 1>>]

\* the normalised weights, each an exact fraction <<numerator, denominator>>;
\* samples is the draw stats.expon.rvs(size=3), indexed 0..2
GetComponentWeights(delegator_type, samples) ==
    IF delegator_type = 0
    THEN LET INDEX_OF_OUTSIZED_WEIGHTED_INPUT == delegator_type - 1
             outsized == PyIndex(INDEX_OF_OUTSIZED_WEIGHTED_INPUT - 1, 3)
             weights == [i \in 0 .. 2 |->
                            IF i = outsized
                            THEN samples[i] * AVG_OUTSIZE_FACTOR_OF_PRICE_TYPE
                            ELSE samples[i]]
             total == weights[0] + weights[1] + weights[2]
         IN [i \in 0 .. 2 |-> <<weights[i], total>>]
    ELSE LET hot == PyIndex(delegator_type - 1, 3)
         IN [i \in 0 .. 2 |-> IF i = hot THEN <<1, 1>> ELSE <<0, 1>>]

Samples == [0 .. 2 -> 1 .. MaxSample]

NoWeights == [type |-> -1, samples |-> <<>>, weights |-> <<>>]

\* a direct call, as test_weights_normalized makes it
CallGetComponentWeights ==
    \E delegator_type \in 0 .. 3, samples \in Samples :
        /\ weights_out' = [type |-> delegator_type, samples |-> samples,
                           weights |-> GetComponentWeights(delegator_type, samples)]
        /\ UNCHANGED <<ledgerVars, paramVars, private_price, nonreal, last,
                       calls, delegate_counter, population>>

-----------------------------------------------------------------------------
(* Delegator.__init__ *)

\* the rotation taken from the id itself
ResolveDelegatorType_IdMod3(id, delegator_type) ==
    IF delegator_type # 0 THEN delegator_type
    ELSE (id % 3) + 1

\* the type a new Delegator stores
ResolveDelegatorType(id, delegator_type) ==
    IF delegator_type # 0 THEN delegator_type
    ELSE ((id - 1) % 3) + 1

\* the id, type and weights of a Delegator built while the counter is `counter`
NewDelegator(counter, delegator_type, samples) ==
    LET id == counter
        resolved == ResolveDelegatorType(id, delegator_type)
    IN [id |-> id, requested_type |-> delegator_type,
        delegator_type |-> resolved,
        component_weights |-> GetComponentWeights(resolved, samples)]

\* discount_rate = 0.9, the constructor's default
DefaultDiscountRate == (9 * Unit) \div 10

\* 1 / (1 - discount_rate)
TimeFactor(discount_rate) == Div(Unit, Unit - discount_rate)

\* the fields __init__ sets on the agent under observation
InitDelegator(initial_shares, holdings, revenue, discount_rate, minimum) ==
    /\ unvested_shares = [t \in {0} |-> initial_shares]
    /\ vested_shares = 0
    /\ reserve_token_holdings = holdings
    /\ expected_revenue = revenue
    /\ time_factor = TimeFactor(discount_rate)
    /\ minimum_shares = minimum
    /\ private_price = 0
    /\ cost_basis = 0
    /\ unrealized_gains_from_shares = 0
    /\ realized_gains_from_shares = 0
    /\ realized_gains_from_dividends = 0

\* a further Delegator is constructed: the counter advances
Construct ==
    \E delegator_type \in 0 .. 3, samples \in {[i \in 0 .. 2 |-> 1]} :
        /\ Len(population) < MaxAgents
        /\ population' = Append(population,
                                NewDelegator(delegate_counter, delegator_type, samples))
        /\ delegate_counter' = delegate_counter + 1
        /\ UNCHANGED <<ledgerVars, paramVars, private_price, nonreal, last,
                       calls, weights_out>>

-----------------------------------------------------------------------------
(* Specifications *)

InitialShares == {0, 5 * Unit, 10 * Unit}

InitialHoldings == {0, 50 * Unit}

MinimumShares == {0, 10 * Unit}

\* one agent, constructed first in its process, then traded by the scheduler
Init ==
    /\ \E s \in InitialShares, h \in InitialHoldings, m \in MinimumShares :
          InitDelegator(s, h, 0, DefaultDiscountRate, m)
    /\ nonreal = FALSE
    /\ last = NoCall
    /\ calls = 0
    /\ population = <<NewDelegator(0, 0, [i \in 0 .. 2 |-> 1])>>
    /\ delegate_counter = 1
    /\ weights_out = NoWeights

Next == BuyOrSellStep \/ SetPrivatePrice \/ Vest

Spec == Init /\ [][Next]_vars

\* the state of a process before any Delegator exists
InitProcess ==
    /\ InitDelegator(0, 0, 0, DefaultDiscountRate, 0)
    /\ nonreal = FALSE
    /\ last = NoCall
    /\ calls = 0
    /\ population = <<>>
    /\ delegate_counter = 0
    /\ weights_out = NoWeights

\* a population of Delegators is constructed one after the other
SpecPopulation == InitProcess /\ [][Construct]_vars

\* the sampler is called directly, again and again
SpecWeights == InitProcess /\ [][CallGetComponentWeights]_vars

ExpectedRevenues == {0, 50 * Unit}

DiscountRates == {0, DefaultDiscountRate}

\* one agent with some belief of revenue, paid dividends by the scheduler
InitDividend ==
    /\ \E s \in InitialShares, r \in ExpectedRevenues, d \in DiscountRates :
          InitDelegator(s, 0, r, d, 0)
    /\ nonreal = FALSE
    /\ last = NoCall
    /\ calls = 0
    /\ population = <<NewDelegator(0, 0, [i \in 0 .. 2 |-> 1])>>
    /\ delegate_counter = 1
    /\ weights_out = NoWeights

NextDividend == DividendValueStep \/ Vest

SpecDividend == InitDividend /\ [][NextDividend]_vars

-----------------------------------------------------------------------------
(* Properties of buy_or_sell, stated on the state a call leaves behind *)

IsTrade == last.op = "buy_or_sell"

\* |private_price - spot_price| / spot_price < threshold, 0 when spot_price <= 0
BelowThreshold ==
    IF last.spot_price > 0
    THEN Abs(last.private_price - last.spot_price) * Unit
            < last.threshold * last.spot_price
    ELSE 0 < last.threshold

BuyDirection == IsTrade /\ ~BelowThreshold /\ last.private_price > last.spot_price

SellDirection == IsTrade /\ ~BelowThreshold /\ last.private_price < last.spot_price

Returned == last.outcome = "returned"

\* every ledger field is as the call found it
LedgersUntouched == Snapshot = last.before

\* C1: the total shares (the unvested entries plus vested_shares) of an agent
\* built with shares, holdings and minimum_shares >= 0 are >= 0 in every state
\* reached by buy_or_sell calls, private-price updates and vesting promotions.
\* (Checked on the states whose ledgers are real numbers.)
C1_SharesNeverNegative == ~nonreal => shares >= 0

\* C2: a call in the sell direction leaves vested_shares >= minimum_shares when
\* it found them so, and burns no more than the vested shares it found (nothing
\* when it found none).
C2_SellKeepsMinimum ==
    SellDirection =>
        LET burned == last.before.vested_shares - vested_shares
        IN /\ (last.before.vested_shares >= minimum_shares
                  => vested_shares >= minimum_shares)
           /\ IF last.before.vested_shares > 0
              THEN burned <= last.before.vested_shares
              ELSE burned = 0

\* a sell that both clips reached: more desired than vested, and a floor in force
C2_Witness ==
    /\ SellDirection /\ Returned
    /\ minimum_shares > 0
    /\ last.before.vested_shares > minimum_shares
    /\ vested_shares = minimum_shares
    /\ DesiredBurn(last.private_price, last.supply, last.reserve)
          > last.before.vested_shares

\* C3: a call in the buy direction made with reserve_token_holdings >= 0
\* returns an added_reserve no larger than those holdings and leaves
\* reserve_token_holdings >= 0.
C3_BuyKeepsHoldings ==
    (BuyDirection /\ last.before.reserve_token_holdings >= 0) =>
        /\ last.added_reserve <= last.before.reserve_token_holdings
        /\ reserve_token_holdings >= 0

\* a buy that wanted more reserve than the agent held and spent all of it
C3_Witness ==
    /\ BuyDirection /\ Returned
    /\ last.before.reserve_token_holdings > 0
    /\ last.added_reserve = last.before.reserve_token_holdings
    /\ reserve_token_holdings = 0
    /\ last.created_shares > 0

\* C4: a call whose percent price difference is strictly below the threshold
\* returns (0, 0) and leaves every ledger field as it was.
C4_BelowThresholdNoOp ==
    (IsTrade /\ BelowThreshold) =>
        /\ Returned
        /\ last.created_shares = 0 /\ last.added_reserve = 0
        /\ LedgersUntouched

\* a call below the threshold that would otherwise have bought
C4_Witness ==
    /\ IsTrade /\ BelowThreshold /\ Returned
    /\ last.private_price > last.spot_price
    /\ last.spot_price > 0
    /\ reserve_token_holdings > 0

\* the same with a pool whose spot price is 0
C4_WitnessNoSpot ==
    /\ IsTrade /\ BelowThreshold /\ Returned
    /\ last.spot_price <= 0
    /\ last.private_price > 0

\* C5: a call in the sell direction made while vested_shares <= 0 returns
\* (0, 0) and changes no ledger field, whatever is unvested.
C5_UnvestedNotSellable ==
    (IsTrade /\ last.private_price < last.spot_price
        /\ last.before.vested_shares <= 0) =>
        /\ Returned
        /\ last.created_shares = 0 /\ last.added_reserve = 0
        /\ LedgersUntouched

\* a sell right after a buy: shares bought at a timestep >= 1, none vested
C5_Witness ==
    /\ SellDirection /\ Returned
    /\ vested_shares = 0
    /\ \E t \in DOMAIN unvested_shares : t >= 1 /\ unvested_shares[t] > 0
    /\ last.created_shares = 0

\* C6: with supply > 0 and reserve > 0, a call with private_price > spot_price
\* returns created_shares >= 0 and added_reserve >= 0 and does not raise the
\* holdings; one with private_price < spot_price returns both <= 0 and does
\* not lower the holdings.
C6_SignFollowsDirection ==
    (IsTrade /\ Returned /\ last.supply > 0 /\ last.reserve > 0) =>
        /\ last.private_price > last.spot_price =>
              /\ last.created_shares >= 0
              /\ last.added_reserve >= 0
              /\ reserve_token_holdings <= last.before.reserve_token_holdings
        /\ last.private_price < last.spot_price =>
              /\ last.created_shares <= 0
              /\ last.added_reserve <= 0
              /\ reserve_token_holdings >= last.before.reserve_token_holdings

\* C10: the deltas a call returns are the change of the agent's own ledgers:
\* total shares rise by created_shares, holdings fall by added_reserve.
C10_DeltasMatchLedgers ==
    (IsTrade /\ Returned) =>
        /\ shares - last.before.shares = last.created_shares
        /\ last.before.reserve_token_holdings - reserve_token_holdings
              = last.added_reserve

-----------------------------------------------------------------------------
(* Properties of dividend_value *)

IsDividend == last.op = "dividend_value"

\* C7: dividend_value with supply <= 0 fails and leaves the agent's state, the
\* dividend ledger included, as it was; with supply > 0 it does not fail.
C7_DividendNeedsSupply ==
    IsDividend =>
        IF last.supply <= 0
        THEN last.outcome = "raised" /\ LedgersUntouched
        ELSE last.outcome = "returned"

\* a failing call on an agent to whom a dividend would have been credited
C7_Witness ==
    /\ IsDividend /\ last.supply < 0 /\ last.outcome = "raised"
    /\ shares > 0 /\ expected_revenue > 0

\* a call that succeeds and credits the ledger
C7_WitnessPaid ==
    /\ IsDividend /\ last.supply > 0 /\ last.outcome = "returned"
    /\ realized_gains_from_dividends > last.before.realized_gains_from_dividends

-----------------------------------------------------------------------------
(* Properties of construction and of the weight sampler *)

Agents == {population[i] : i \in 1 .. Len(population)}

\* C8 as stated: an agent built with type 0 stores (id mod 3) + 1.
C8_TypeIsIdMod3Plus1 ==
    \A a \in Agents :
        a.requested_type = 0 => a.delegator_type = (a.id % 3) + 1

\* C8: an agent built with type 0 stores the type in {1, 2, 3} congruent to
\* its id modulo 3 (3, 1, 2, 3, ... for ids 0, 1, 2, 3, ...), each the successor
\* of the one before it in the rotation; an explicit type is stored as given.
C8_TypeRotatesFromThree ==
    /\ \A a \in Agents :
          /\ a.delegator_type \in {1, 2, 3}
          /\ a.requested_type = 0 => (a.delegator_type - a.id) % 3 = 0
          /\ a.requested_type # 0 => a.delegator_type = a.requested_type
    /\ \A a, b \in Agents :
          (a.requested_type = 0 /\ b.requested_type = 0 /\ b.id = a.id + 1)
              => b.delegator_type = (a.delegator_type % 3) + 1
    /\ \A i \in 1 .. Len(population) : population[i].id = i - 1

\* four agents built without a type: the rotation comes back to where it began
C8_Witness ==
    /\ Len(population) >= 4
    /\ \A a \in Agents : a.requested_type = 0
    /\ population[1].delegator_type = 3
    /\ population[4].delegator_type = 3

\* the sum of three fractions, as <<numerator, denominator>>
SumOfWeights(w) ==
    <<w[0][1] * w[1][2] * w[2][2] + w[1][1] * w[0][2] * w[2][2]
        + w[2][1] * w[0][2] * w[1][2],
      w[0][2] * w[1][2] * w[2][2]>>

\* C9: for every type 0..3 the sampler returns three non-negative weights
\* whose sum is 1 within 1e-4; for types 1, 2, 3 the vector is one-hot with
\* the 1 at index type - 1.
C9_WeightsNormalized ==
    weights_out # NoWeights =>
        LET w == weights_out.weights
            total == SumOfWeights(w)
        IN /\ DOMAIN w = 0 .. 2
           /\ \A i \in 0 .. 2 : w[i][1] >= 0 /\ w[i][2] > 0
           /\ Abs(total[1] - total[2]) * 10000 <= total[2]
           /\ weights_out.type \in 1 .. 3 =>
                 \A i \in 0 .. 2 :
                     w[i][1] = (IF i = weights_out.type - 1 THEN w[i][2] ELSE 0)

\* a mixed draw of three different samples
C9_Witness ==
    /\ weights_out # NoWeights
    /\ weights_out.type = 0
    /\ weights_out.samples[0] # weights_out.samples[1]
    /\ weights_out.samples[1] # weights_out.samples[2]
    /\ weights_out.weights[1][1] = 10 * weights_out.samples[1]

====
